---- MODULE Spec2Model ----
(***************************************************************************)
(* Model of the Native Transclusion plugin (src/main.js).                  *)
(*                                                                         *)
(*   - the heading shifter  shiftHeadings           (main.js 69-77)        *)
(*   - the ancestor locator getParentHeaderLevel    (main.js 82-91)        *)
(*   - the markdown post-processor callback         (main.js 16-63)        *)
(*                                                                         *)
(* JavaScript strings are sequences of one-character strings, so that the  *)
(* regular expressions of the source are modelled by what they match.      *)
(* null is the empty tuple <<>>, a non-null value v is <<v>>.              *)
(***************************************************************************)
EXTENDS Integers, Sequences, FiniteSets, TLC

VARIABLES
    settings,       \* this.settings: [renderAllTransclusions, shiftHeadings]
    data,           \* the stored plugin data (what loadData returns)
    saves,          \* the saveData calls in flight: what each one writes
    changes,        \* how many times the user has changed a toggle
    embeddedFiles,  \* this.embeddedFiles: the paths being embedded
    vault,          \* the documents: path -> the embed markers its render produces
    passes,         \* the calls of the post-processor the host has made; each is
                    \* the stack of its nested calls (the renderer calls the
                    \* post-processor again on what it renders)
    atStart,        \* history: the settings as they were when the host made
                    \* each of these calls (recorded in SpecRecorded only;
                    \* the code keeps no such copy)
    content,        \* the text handed to shiftHeadings
    dom,            \* the element tree the transclusion element lives in
    transclusion,   \* the element (index into dom) handed to the function
    base,           \* the heading level the tree was built under (Null: none)
    shiftResult,    \* [done, value]: what shiftHeadings returned
    headerLevel     \* [done, value]: what getParentHeaderLevel returned

pluginVars ==
    <<settings, data, saves, changes, embeddedFiles, vault, passes, atStart>>
pureVars == <<content, dom, transclusion, base, shiftResult, headerLevel>>

----------------------------------------------------------------------------
(* Bounds of the model *)

MaxLen == 6         \* longest text handed to shiftHeadings
MaxNodes == 4       \* largest element tree handed to getParentHeaderLevel
MaxEmbeds == 2      \* most embed markers in the documents of the vault
MaxChanges == 2     \* most changes of a toggle by the user

----------------------------------------------------------------------------
(* Values *)

Null == <<>>
Some(v) == <<v>>

Min(a, b) == IF a <= b THEN a ELSE b

Pending == [done |-> FALSE, value |-> Null]
Returned(v) == [done |-> TRUE, value |-> v]

\* characters of the texts: the heading marker, the two kinds of whitespace
\* (in-line and line break) and an ordinary character
Chars == {"#", " ", "\n", "x"}

RECURSIVE TextsOfLen(_)
TextsOfLen(n) ==
    IF n = 0 THEN {<<>>}
    ELSE {Append(t, c) : t \in TextsOfLen(n - 1), c \in Chars}

Texts == UNION {TextsOfLen(n) : n \in 0..MaxLen}

\* tag names, as character sequences (Element.tagName is upper case in HTML)
SPAN == <<"S", "P", "A", "N">>
DIV == <<"D", "I", "V">>
HR == <<"H", "R">>
H(n) == <<"H", CASE n = 1 -> "1" [] n = 2 -> "2" [] n = 3 -> "3"
                 [] n = 4 -> "4" [] n = 5 -> "5" [] n = 6 -> "6">>

----------------------------------------------------------------------------
(* getParentHeaderLevel, main.js 82-91 *)

\* /^H[1-6]$/.test(tagName)
IsHeaderTag(tagName) ==
    /\ Len(tagName) = 2
    /\ tagName[1] = "H"
    /\ tagName[2] \in {"1", "2", "3", "4", "5", "6"}

\* parseInt of a one-character string
parseInt(c) ==
    CASE c = "0" -> 0 [] c = "1" -> 1 [] c = "2" -> 2 [] c = "3" -> 3
      [] c = "4" -> 4 [] c = "5" -> 5 [] c = "6" -> 6 [] c = "7" -> 7
      [] c = "8" -> 8 [] c = "9" -> 9

\* tagName.charAt(i), zero based
charAt(s, i) == s[i + 1]

\* the while loop of getParentHeaderLevel: parent is Null or Some(node)
RECURSIVE walkMutStopEarly(_, _, _)
walkMutStopEarly(tree, parent, steps) ==
    IF parent = Null \/ steps = 0 THEN Null
    ELSE LET el == tree[parent[1]] IN
         IF Len(el.tagName) > 0 /\ IsHeaderTag(el.tagName)
         THEN Some(parseInt(charAt(el.tagName, 1)))
         ELSE walkMutStopEarly(tree, el.parentElement, steps - 1)

RECURSIVE walk(_, _)
walk(tree, parent) ==
    IF parent = Null THEN Null
    ELSE LET el == tree[parent[1]] IN
         IF Len(el.tagName) > 0 /\ IsHeaderTag(el.tagName)
         THEN Some(parseInt(charAt(el.tagName, 1)))
         ELSE walk(tree, el.parentElement)

\* a plausible slip: only the element and its direct parent are looked at
getParentHeaderLevelDirectOnly(el) == walkMutStopEarly(el.tree, Some(el.id), 2)

\* el is an element: the tree it lives in and its index in the tree
getParentHeaderLevel(el) == walk(el.tree, Some(el.id))

----------------------------------------------------------------------------
(* shiftHeadings, main.js 69-77 *)

MaxHeading == 6

IsSpace(c) == c \in {" ", "\n", "\t"}

\* "#".repeat(n)
repeatHash(n) == [i \in 1..n |-> "#"]

\* length of the run of characters satisfying the test that starts at p
RECURSIVE hashRun(_, _)
hashRun(s, p) ==
    IF p <= Len(s) /\ s[p] = "#" THEN 1 + hashRun(s, p + 1) ELSE 0

RECURSIVE spaceRun(_, _)
spaceRun(s, p) ==
    IF p <= Len(s) /\ IsSpace(s[p]) THEN 1 + spaceRun(s, p + 1) ELSE 0

\* ^ under the m flag: the start of the text or just after a line break
atLineStart(s, p) == p = 1 \/ s[p - 1] = "\n"

\* /^(#{1,6})\s+/ matches at p: the whole run of marker characters is 1..6
\* long (a longer run leaves a marker character where \s is wanted) and
\* at least one whitespace character follows it
matchesAt(s, p) ==
    /\ atLineStart(s, p)
    /\ hashRun(s, p) \in 1..MaxHeading
    /\ spaceRun(s, p + hashRun(s, p)) >= 1

newLevelUnclamped(hashes, parentHeaderLevel) == hashes + parentHeaderLevel

\* Math.min(hashes.length + parentHeaderLevel, 6)
newLevel(hashes, parentHeaderLevel) == Min(hashes + parentHeaderLevel, MaxHeading)

\* the replace callback: the whole match (markers and whitespace) becomes
\* the new markers and one space
replacement(hashes, parentHeaderLevel) ==
    repeatHash(newLevel(hashes, parentHeaderLevel)) \o <<" ">>

\* content.replace(/^(#{1,6})\s+/gm, callback): scan from p, left to right
RECURSIVE replaceFrom(_, _, _)
replaceFrom(s, p, parentHeaderLevel) ==
    IF p > Len(s) THEN <<>>
    ELSE IF matchesAt(s, p)
         THEN LET h == hashRun(s, p)
                  w == spaceRun(s, p + h)
              IN replacement(h, parentHeaderLevel)
                     \o replaceFrom(s, p + h + w, parentHeaderLevel)
         ELSE <<s[p]>> \o replaceFrom(s, p + 1, parentHeaderLevel)

shiftHeadings(text, el) ==
    LET parentHeaderLevel == getParentHeaderLevel(el) IN
    IF parentHeaderLevel = Null THEN text
    ELSE replaceFrom(text, 1, parentHeaderLevel[1])

----------------------------------------------------------------------------
(* Element trees *)

Node(tagName, parentElement) ==
    [tagName |-> tagName, parentElement |-> parentElement]

Element(tree, id) == [tree |-> tree, id |-> id]

\* the tags of the nodes other than the transclusion
Tags == {SPAN, DIV, HR, H(2), H(3)}

\* the trees grow node by node: node 1 is the root (it has no
\* parentElement), the parent of every other node has a smaller index
Roots == {<<Node(tag, Null)>> : tag \in Tags}

\* span.internal-embed elements: the only elements the plugin hands over
Spans(tree) == {i \in 1..Len(tree) : tree[i].tagName = SPAN}

\* the tree of a transclusion in a paragraph-like block directly under a
\* heading of the given level (Null: under no heading)
TreeUnder(level) ==
    <<Node(IF level = Null THEN DIV ELSE H(level[1]), Null),
      Node(SPAN, Some(1))>>

Levels == {Null} \cup {Some(n) : n \in 1..MaxHeading}

----------------------------------------------------------------------------
(* The documents and the rendered fragments *)

\* the content documents of the vault
Docs == {"A", "B"}

\* what getAbstractFileByPath finds: a content document for the paths of
\* Docs, a folder for "folder", nothing (null) for any other path
getAbstractFileByPath(path) ==
    IF path \in Docs THEN Some("TFile")
    ELSE IF path = "folder" THEN Some("TFolder")
    ELSE Null

\* file && file instanceof (the file class)
isFile(file) == file # Null /\ file[1] = "TFile"

\* a span.internal-embed element: its src attribute ("" when it has none)
\* and whether its outerHTML holds "!![["
Marker(src, explicit) == [kind |-> "marker", src |-> src, explicit |-> explicit]

\* createDiv({text: "Infinite loop detected: " + filePath, cls: "embed-warning"})
Warning(filePath) == [kind |-> "warning", path |-> filePath]

\* the div.native-transclusion the target was rendered into: its target,
\* whether the text went through shiftHeadings, and what was rendered in it
Container(filePath, shifted, children) ==
    [kind |-> "container", path |-> filePath, shifted |-> shifted,
     children |-> children]

Markers ==
    {Marker(d, e) : d \in Docs, e \in BOOLEAN}
        \cup {Marker(t, TRUE) : t \in {"folder", "missing", ""}}

RECURSIVE FragmentsOfLen(_)
FragmentsOfLen(n) ==
    IF n = 0 THEN {<<>>}
    ELSE {Append(f, m) : f \in FragmentsOfLen(n - 1), m \in Markers}

Fragments == UNION {FragmentsOfLen(n) : n \in 0..MaxEmbeds}

RECURSIVE SumLen(_, _)
SumLen(v, ds) ==
    IF ds = {} THEN 0
    ELSE LET d == CHOOSE x \in ds : TRUE IN Len(v[d]) + SumLen(v, ds \ {d})

\* the vaults whose documents hold at most MaxEmbeds embeds together
Vaults == {v \in [Docs -> Fragments] : SumLen(v, Docs) <= MaxEmbeds}

\* the views of the host: each renders a document and calls the
\* post-processor on it once
Views == {"left", "right"}

DefaultSettings == [renderAllTransclusions |-> FALSE, shiftHeadings |-> FALSE]

----------------------------------------------------------------------------
(* The post-processor callback, main.js 16-63.                             *)
(* A call is a frame: el is the fragment (its span.internal-embed elements *)
(* in document order, each replaced in place as the loop goes), i the      *)
(* position of the for loop, pc where the call stands:                     *)
(*   "loop"   running, about to look at marker i (no await in between)     *)
(*   "read"   suspended at await vault.read                     (line 40)  *)
(*   "render" suspended at await MarkdownRenderer.render        (line 52)  *)
(*   "done"   returned;  "failed": the await threw, the promise rejected   *)
(* status is the state of each marker in the per-marker state machine.     *)
(***************************************************************************)

NewFrame(sourcePath) ==
    [source |-> sourcePath,
     el |-> vault[sourcePath],
     i |-> 1,
     pc |-> "loop",
     shifted |-> FALSE,
     status |-> [k \in 1..Len(vault[sourcePath]) |-> "Unvisited"]]

Top(p) == passes[p][Len(passes[p])]
SetTop(p, f) == [passes EXCEPT ![p][Len(passes[p])] = f]

\* JavaScript runs one call at a time: a call that is running keeps running
\* until its next await, and nothing else starts or resumes meanwhile
NoneRunning == \A q \in DOMAIN passes : Top(q).pc # "loop"

AtMarker(p) == Top(p).pc = "loop" /\ Top(p).i <= Len(Top(p).el)

\* line 25
shouldProcessExplicitOnly(s, m) == m.explicit

shouldProcess(s, m) == s.renderAllTransclusions \/ m.explicit

\* lines 26-28
resolvesAnything(filePath) == filePath # ""

resolves(filePath) ==
    filePath # "" /\ isFile(getAbstractFileByPath(filePath))

\* line 31
loopDetectedNever(set, filePath) == FALSE

loopDetected(set, filePath) == filePath \in set

\* the marker is left as it is and the loop goes on (the ifs of lines 25-28
\* have no else)
skipped(f) ==
    [f EXCEPT !.status[f.i] = "Skipped", !.i = f.i + 1]

\* lines 32-35
rejectedNoContinue(f) ==
    [f EXCEPT !.el[f.i] = Warning(f.el[f.i].src),
              !.status[f.i] = "Resolving",
              !.pc = "read"]

rejected(f) ==
    [f EXCEPT !.el[f.i] = Warning(f.el[f.i].src),
              !.status[f.i] = "Rejected",
              !.i = f.i + 1]

\* lines 39-40, up to the await
enteredNotAwaited(f) ==
    [f EXCEPT !.status[f.i] = "Resolving", !.i = f.i + 1]

entered(f) ==
    [f EXCEPT !.status[f.i] = "Resolving", !.pc = "read"]

\* lines 43-52, up to the await: shiftHeadings is applied when the setting
\* is on at this moment
readReturned(f, s) ==
    [f EXCEPT !.pc = "render", !.shifted = s.shiftHeadings]

\* lines 55-58 and on to the next turn of the loop
spliced(f, children) ==
    [f EXCEPT !.el[f.i] = Container(f.el[f.i].src, f.shifted, children),
              !.status[f.i] = "Resolved",
              !.shifted = FALSE,
              !.i = f.i + 1,
              !.pc = "loop"]

\* an await of line 40 or 52 throws: nothing catches it, the rest of the
\* callback is not run and the promise of the call is rejected
thrownAfterSplice(f) ==
    [f EXCEPT !.el[f.i] = Container(f.el[f.i].src, f.shifted, <<>>),
              !.status[f.i] = "Failed", !.shifted = FALSE, !.pc = "failed"]

thrown(f) ==
    [f EXCEPT !.status[f.i] = "Failed", !.shifted = FALSE, !.pc = "failed"]

\* line 58
releasedAll(set, filePath) == {}

released(set, filePath) == set \ {filePath}

\* the host renders document d in a view and calls the post-processor on it
HostRender(d) ==
    /\ NoneRunning
    /\ Len(passes) < Cardinality(Views)
    /\ passes' = Append(passes, <<NewFrame(d)>>)
    /\ UNCHANGED <<settings, data, saves, changes, embeddedFiles, vault,
                   pureVars, atStart>>

\* the same, with the settings of this moment recorded
HostRenderRecorded(d) ==
    /\ NoneRunning
    /\ Len(passes) < Cardinality(Views)
    /\ passes' = Append(passes, <<NewFrame(d)>>)
    /\ atStart' = Append(atStart, settings)
    /\ UNCHANGED <<settings, data, saves, changes, embeddedFiles, vault,
                   pureVars>>

\* lines 20-28: the marker does not qualify or its target does not resolve
SkipMarker(p) ==
    /\ AtMarker(p)
    /\ LET f == Top(p)
           m == f.el[f.i]
       IN /\ ~(shouldProcess(settings, m) /\ resolves(m.src))
          /\ passes' = SetTop(p, skipped(f))
    /\ UNCHANGED <<settings, data, saves, changes, embeddedFiles, vault,
                   pureVars, atStart>>

\* lines 31-36: the target is being embedded already
RejectLoopLeaving(p) ==
    /\ AtMarker(p)
    /\ LET f == Top(p)
           m == f.el[f.i]
       IN /\ shouldProcess(settings, m) /\ resolves(m.src)
          /\ loopDetected(embeddedFiles, m.src)
          /\ passes' = SetTop(p, rejected(f))
          /\ embeddedFiles' = released(embeddedFiles, m.src)
    /\ UNCHANGED <<settings, data, saves, changes, vault, pureVars, atStart>>

RejectLoop(p) ==
    /\ AtMarker(p)
    /\ LET f == Top(p)
           m == f.el[f.i]
       IN /\ shouldProcess(settings, m) /\ resolves(m.src)
          /\ loopDetected(embeddedFiles, m.src)
          /\ passes' = SetTop(p, rejected(f))
    /\ UNCHANGED <<settings, data, saves, changes, embeddedFiles, vault,
                   pureVars, atStart>>

\* lines 39-40: the target is marked and its read is awaited
EnterAndReadUnmarked(p) ==
    /\ AtMarker(p)
    /\ LET f == Top(p)
           m == f.el[f.i]
       IN /\ shouldProcess(settings, m) /\ resolves(m.src)
          /\ ~loopDetected(embeddedFiles, m.src)
          /\ passes' = SetTop(p, entered(f))
    /\ UNCHANGED <<settings, data, saves, changes, embeddedFiles, vault,
                   pureVars, atStart>>

EnterAndRead(p) ==
    /\ AtMarker(p)
    /\ LET f == Top(p)
           m == f.el[f.i]
       IN /\ shouldProcess(settings, m) /\ resolves(m.src)
          /\ ~loopDetected(embeddedFiles, m.src)
          /\ embeddedFiles' = embeddedFiles \cup {m.src}
          /\ passes' = SetTop(p, entered(f))
    /\ UNCHANGED <<settings, data, saves, changes, vault, pureVars, atStart>>

\* the for loop is over: the call returns
EndPassClearing(p) ==
    /\ Top(p).pc = "loop"
    /\ Top(p).i > Len(Top(p).el)
    /\ passes' = SetTop(p, [Top(p) EXCEPT !.pc = "done"])
    /\ embeddedFiles' = {}
    /\ UNCHANGED <<settings, data, saves, changes, vault, pureVars, atStart>>

EndPass(p) ==
    /\ Top(p).pc = "loop"
    /\ Top(p).i > Len(Top(p).el)
    /\ passes' = SetTop(p, [Top(p) EXCEPT !.pc = "done"])
    /\ UNCHANGED <<settings, data, saves, changes, embeddedFiles, vault,
                   pureVars, atStart>>

\* vault.read returns; lines 43-52 run up to the await of the render
ReadReturns(p) ==
    /\ NoneRunning
    /\ Top(p).pc = "read"
    /\ passes' = SetTop(p, readReturned(Top(p), settings))
    /\ UNCHANGED <<settings, data, saves, changes, embeddedFiles, vault,
                   pureVars, atStart>>

\* vault.read fails
ReadFails(p) ==
    /\ NoneRunning
    /\ Top(p).pc = "read"
    /\ passes' = SetTop(p, thrown(Top(p)))
    /\ UNCHANGED <<settings, data, saves, changes, embeddedFiles, vault,
                   pureVars, atStart>>

\* the renderer has rendered the target into the container and calls the
\* post-processor on it
RenderPostProcesses(p) ==
    /\ NoneRunning
    /\ Top(p).pc = "render"
    /\ passes' = [passes EXCEPT
                     ![p] = Append(@, NewFrame(Top(p).el[Top(p).i].src))]
    /\ UNCHANGED <<settings, data, saves, changes, embeddedFiles, vault,
                   pureVars, atStart>>

\* the render returns (the renderer may or may not pass on a failure of the
\* nested call); lines 55-58 run and the loop goes on
RenderReturns(p) ==
    /\ NoneRunning
    /\ Len(passes[p]) >= 2
    /\ Top(p).pc \in {"done", "failed"}
    /\ LET n == Len(passes[p])
           child == passes[p][n]
           f == passes[p][n - 1]
       IN /\ passes' = [passes EXCEPT
                           ![p] = Append(SubSeq(@, 1, n - 2),
                                         spliced(f, child.el))]
          /\ embeddedFiles' = released(embeddedFiles, f.el[f.i].src)
    /\ UNCHANGED <<settings, data, saves, changes, vault, pureVars, atStart>>

\* the render fails, before or after the nested call
RenderFails(p) ==
    /\ NoneRunning
    /\ \/ /\ Top(p).pc = "render"
          /\ passes' = SetTop(p, thrown(Top(p)))
       \/ /\ Len(passes[p]) >= 2
          /\ Top(p).pc \in {"done", "failed"}
          /\ LET n == Len(passes[p]) IN
             passes' = [passes EXCEPT
                           ![p] = Append(SubSeq(@, 1, n - 2),
                                         thrown(passes[p][n - 1]))]
    /\ UNCHANGED <<settings, data, saves, changes, embeddedFiles, vault,
                   pureVars, atStart>>

\* loadSettings, main.js 93-98: Object.assign(defaults, await loadData());
\* the stored data is a record of some of the fields, or nothing (null);
\* every field it has is copied over the default, known or not
loadSettingsDefaultsWin(stored) == DefaultSettings

loadSettings(stored) ==
    [k \in DOMAIN DefaultSettings \cup DOMAIN stored |->
        IF k \in DOMAIN stored THEN stored[k] ELSE DefaultSettings[k]]

\* saveSettings, main.js 100-102: saveData(this.settings) is called; the
\* write ends later
saveSettings(s) == Append(saves, s)

\* the toggles of the setting tab, main.js 122-138: the flag is set and
\* the settings are saved
ChangeRenderAll(value) ==
    /\ NoneRunning
    /\ changes < MaxChanges
    /\ settings.renderAllTransclusions # value
    /\ settings' = [settings EXCEPT !.renderAllTransclusions = value]
    /\ saves' = saveSettings(settings')
    /\ changes' = changes + 1
    /\ UNCHANGED <<data, embeddedFiles, vault, passes, pureVars, atStart>>

ChangeShiftHeadings(value) ==
    /\ NoneRunning
    /\ changes < MaxChanges
    /\ settings.shiftHeadings # value
    /\ settings' = [settings EXCEPT !.shiftHeadings = value]
    /\ saves' = saveSettings(settings')
    /\ changes' = changes + 1
    /\ UNCHANGED <<data, embeddedFiles, vault, passes, pureVars, atStart>>

\* a saveData call ends: its settings are the stored data
SaveCompletes ==
    /\ NoneRunning
    /\ saves # <<>>
    /\ data' = Head(saves)
    /\ saves' = Tail(saves)
    /\ UNCHANGED <<settings, changes, embeddedFiles, vault, passes, pureVars, atStart>>

\* onload, main.js 4-14, when the plugin is loaded again (no call of the
\* post-processor and no save is in progress): the settings are loaded from
\* the stored data and the set is a new one
onload ==
    /\ passes = <<>>
    /\ saves = <<>>
    /\ settings' = loadSettings(data)
    /\ embeddedFiles' = {}
    /\ changes' = 0
    /\ UNCHANGED <<data, saves, vault, passes, atStart, pureVars>>

\* the state after onload (main.js 4-14) of a fresh install (no stored
\* data) in a vault of documents
InitPlugin ==
    /\ data = Null
    /\ settings = loadSettings(data)
    /\ saves = <<>>
    /\ changes = 0
    /\ embeddedFiles = {}
    /\ vault \in Vaults
    /\ passes = <<>>
    /\ atStart = <<>>

IdlePlugin ==
    /\ settings = DefaultSettings
    /\ data = Null
    /\ saves = <<>>
    /\ changes = 0
    /\ embeddedFiles = {}
    /\ vault = [d \in Docs |-> <<>>]
    /\ passes = <<>>
    /\ atStart = <<>>

IdlePure ==
    /\ content = <<>>
    /\ base = Null
    /\ dom = TreeUnder(Null)
    /\ transclusion = 2
    /\ shiftResult = Pending
    /\ headerLevel = Pending

----------------------------------------------------------------------------
(* The heading shifter applied to every text and base level *)

InitShift ==
    /\ content \in Texts
    /\ base \in Levels
    /\ dom = TreeUnder(base)
    /\ transclusion = 2
    /\ shiftResult = Pending
    /\ headerLevel = Pending
    /\ IdlePlugin

ApplyShift ==
    /\ ~shiftResult.done
    /\ shiftResult' = Returned(shiftHeadings(content, Element(dom, transclusion)))
    /\ UNCHANGED <<content, dom, transclusion, base, headerLevel, pluginVars>>

(* The ancestor locator applied to every span of every tree *)

InitLocate ==
    /\ content = <<>>
    /\ base = Null
    /\ dom \in Roots
    /\ transclusion = 1
    /\ shiftResult = Pending
    /\ headerLevel = Pending
    /\ IdlePlugin

\* the tree gets one more element, under one of its elements
GrowTree(tag, parent) ==
    /\ ~headerLevel.done
    /\ Len(dom) < MaxNodes
    /\ parent \in 1..Len(dom)
    /\ dom' = Append(dom, Node(tag, Some(parent)))
    /\ UNCHANGED <<content, transclusion, base, shiftResult, headerLevel,
                   pluginVars>>

\* getParentHeaderLevel is called on a span of the tree
ApplyLocate(span) ==
    /\ ~headerLevel.done
    /\ span \in Spans(dom)
    /\ transclusion' = span
    /\ headerLevel' = Returned(getParentHeaderLevel(Element(dom, span)))
    /\ UNCHANGED <<content, dom, base, shiftResult, pluginVars>>

\* what the stored data can be when the plugin is loaded: nothing, or a
\* record of some of the fields and possibly of a field this version does
\* not know (written by another version, or by hand)
StoredKeys == DOMAIN DefaultSettings \cup {"legacy"}

StoredData ==
    {Null} \cup UNION {[S -> BOOLEAN] : S \in (SUBSET StoredKeys) \ {{}}}

\* the plugin loaded on any stored data, in a vault without embeds
InitSettings ==
    /\ data \in StoredData
    /\ settings = loadSettings(data)
    /\ saves = <<>>
    /\ changes = 0
    /\ embeddedFiles = {}
    /\ vault = [d \in Docs |-> <<>>]
    /\ passes = <<>>
    /\ atStart = <<>>
    /\ IdlePure

vars == <<pluginVars, pureVars>>

Init == InitPlugin /\ IdlePure

Next ==
    \/ \E d \in Docs : HostRender(d)
    \/ \E p \in DOMAIN passes : SkipMarker(p)
    \/ \E p \in DOMAIN passes : RejectLoop(p)
    \/ \E p \in DOMAIN passes : EnterAndRead(p)
    \/ \E p \in DOMAIN passes : EndPass(p)
    \/ \E p \in DOMAIN passes : ReadReturns(p)
    \/ \E p \in DOMAIN passes : ReadFails(p)
    \/ \E p \in DOMAIN passes : RenderPostProcesses(p)
    \/ \E p \in DOMAIN passes : RenderReturns(p)
    \/ \E p \in DOMAIN passes : RenderFails(p)
    \/ \E value \in BOOLEAN : ChangeRenderAll(value)
    \/ \E value \in BOOLEAN : ChangeShiftHeadings(value)
    \/ SaveCompletes

Spec == Init /\ [][Next]_vars

\* the same program, with the settings at the start of each pass recorded
NextRecorded ==
    \/ \E d \in Docs : HostRenderRecorded(d)
    \/ \E p \in DOMAIN passes : SkipMarker(p)
    \/ \E p \in DOMAIN passes : RejectLoop(p)
    \/ \E p \in DOMAIN passes : EnterAndRead(p)
    \/ \E p \in DOMAIN passes : EndPass(p)
    \/ \E p \in DOMAIN passes : ReadReturns(p)
    \/ \E p \in DOMAIN passes : ReadFails(p)
    \/ \E p \in DOMAIN passes : RenderPostProcesses(p)
    \/ \E p \in DOMAIN passes : RenderReturns(p)
    \/ \E p \in DOMAIN passes : RenderFails(p)
    \/ \E value \in BOOLEAN : ChangeRenderAll(value)
    \/ \E value \in BOOLEAN : ChangeShiftHeadings(value)
    \/ SaveCompletes

SpecRecorded == Init /\ [][NextRecorded]_vars

\* the setting tab and the stored data
NextSettings ==
    \/ \E value \in BOOLEAN : ChangeRenderAll(value)
    \/ \E value \in BOOLEAN : ChangeShiftHeadings(value)
    \/ SaveCompletes
    \/ onload

SpecSettings == InitSettings /\ [][NextSettings]_vars

\* a step of pass p: the callback runs on to its next await, or the read
\* or the render it awaits settles
PassStep(p) ==
    /\ p \in DOMAIN passes
    /\ \/ SkipMarker(p)
       \/ RejectLoop(p)
       \/ EnterAndRead(p)
       \/ EndPass(p)
       \/ ReadReturns(p)
       \/ ReadFails(p)
       \/ RenderPostProcesses(p)
       \/ RenderReturns(p)
       \/ RenderFails(p)

\* the engine runs a call that can run, and every read and every render
\* that is awaited settles
FairSpec == Spec /\ \A p \in 1..Cardinality(Views) : WF_vars(PassStep(p))

NextShift == ApplyShift
NextLocate ==
    \/ \E tag \in Tags, parent \in 1..MaxNodes : GrowTree(tag, parent)
    \/ \E span \in 1..MaxNodes : ApplyLocate(span)

SpecShift == InitShift /\ [][NextShift]_vars
SpecLocate == InitLocate /\ [][NextLocate]_vars

----------------------------------------------------------------------------
(* Claims about the post-processor (checked under Spec) *)

\* the calls in progress or ended: <<p, j>> is the j-th nested call of pass p
Frames ==
    UNION {{<<p, j>> : j \in 1..Len(passes[p])} : p \in DOMAIN passes}
FrameAt(x) == passes[x[1]][x[2]]

\* the marker the fragment of a call held at position k when it was rendered
Original(f, k) == vault[f.source][k]

\* x is a resolution of d in progress: entered (line 39), not yet left
Resolving(x, d) ==
    /\ FrameAt(x).pc \in {"read", "render"}
    /\ FrameAt(x).el[FrameAt(x).i].src = d

\* C1: with A = !![[B]] and B = !![[A]], a render of A ends (B resolved,
\* nothing left in flight) with B embedded once and the cycle warning in
\* place of the marker for A inside B: A is not rendered again inside B.
C1_MutualEmbedOnce ==
    \A p \in DOMAIN passes :
        LET root == passes[p][1] IN
        ( /\ vault["A"] = <<Marker("B", TRUE)>>
          /\ vault["B"] = <<Marker("A", TRUE)>>
          /\ root.source = "A"
          /\ root.status[1] = "Resolved"
          /\ embeddedFiles = {} )
        => /\ root.el[1].kind = "container"
           /\ root.el[1].path = "B"
           /\ root.el[1].children = <<Warning("A")>>

\* C2: a path is in embeddedFiles exactly while a resolution of it is in
\* progress.
C2_InFlightExactlyWhileResolving ==
    \A d \in Docs :
        d \in embeddedFiles <=> \E x \in Frames : Resolving(x, d)

\* C3: there are never two resolutions of the same document in progress; a
\* resolution in progress holds its document in embeddedFiles, and a marker
\* rejected as a cycle is the warning naming its target (its target was not
\* rendered into a container for it).
C3_NoReentrantResolution ==
    /\ \A d \in Docs :
          /\ Cardinality({x \in Frames : Resolving(x, d)}) <= 1
          /\ (\E x \in Frames : Resolving(x, d)) => d \in embeddedFiles
    /\ \A x \in Frames :
          \A k \in 1..Len(FrameAt(x).el) :
              FrameAt(x).status[k] = "Rejected"
                  => FrameAt(x).el[k] = Warning(Original(FrameAt(x), k).src)

\* a document embeds itself through another one: the nested attempt on it
\* was rejected while the outer resolution of it is in progress
C3_Witness ==
    \E x \in Frames, y \in Frames :
        /\ x[1] = y[1]
        /\ x[2] < y[2]
        /\ \E d \in Docs, k \in 1..Len(FrameAt(y).el) :
              /\ Resolving(x, d)
              /\ FrameAt(y).source # d
              /\ Original(FrameAt(y), k).src = d
              /\ FrameAt(y).status[k] = "Rejected"

\* C4: a failed fetch or render affects that one marker only; in particular
\* every other marker of a call that has ended has been visited and has
\* reached Skipped, Rejected or Resolved, as it does when nothing fails.
C4_FailureAffectsOneMarker ==
    \A x \in Frames :
        FrameAt(x).pc \in {"done", "failed"}
            => \A k \in 1..Len(FrameAt(x).el) :
                   FrameAt(x).status[k] # "Unvisited"

\* C5: a marker whose fetch or render failed is still in its place in the
\* tree, as it was rendered, and the call has been rejected at that marker.
C5_NoPartialSplice ==
    \A x \in Frames :
        \A k \in 1..Len(FrameAt(x).el) :
            FrameAt(x).status[k] = "Failed"
                => /\ FrameAt(x).el[k] = Original(FrameAt(x), k)
                   /\ FrameAt(x).el[k].kind = "marker"
                   /\ FrameAt(x).pc = "failed"
                   /\ FrameAt(x).i = k

\* a call spliced its first marker and failed at its second
C5_Witness ==
    \E x \in Frames :
        /\ FrameAt(x).status = <<"Resolved", "Failed">>
        /\ FrameAt(x).el[1].kind = "container"

\* pass p looks at a marker in this step
Visits(p) == AtMarker(p) /\ passes' # passes

TopAfter(p) == passes'[p][Len(passes[p])]

\* the marker is left alone: nothing read, nothing rendered, nothing marked,
\* no error, and the loop is at the next marker
LeftUntouched(p) ==
    /\ Len(passes'[p]) = Len(passes[p])
    /\ TopAfter(p).status[Top(p).i] = "Skipped"
    /\ TopAfter(p).el = Top(p).el
    /\ TopAfter(p).pc = "loop"
    /\ TopAfter(p).i = Top(p).i + 1
    /\ embeddedFiles' = embeddedFiles

\* C6: a marker is processed if and only if renderAllTransclusions is on or
\* the marker is explicit: otherwise it is left untouched (no read, no
\* render, embeddedFiles unchanged); a marker of an existing document that
\* passes the gate is entered or rejected as a cycle.
C6_PolicyGating ==
    [][\A p \in DOMAIN passes :
          Visits(p) =>
              LET m == Top(p).el[Top(p).i] IN
              /\ ~(settings.renderAllTransclusions \/ m.explicit)
                    => LeftUntouched(p)
              /\ ((settings.renderAllTransclusions \/ m.explicit)
                      /\ m.src \in Docs)
                    => TopAfter(p).status[Top(p).i] \in {"Resolving", "Rejected"}
      ]_vars

\* in one call an implicit marker was embedded (the setting was on) and
\* another implicit marker was left alone (the setting was off)
C6_Witness ==
    \E x \in Frames :
        \E k \in 1..Len(FrameAt(x).el), j \in 1..Len(FrameAt(x).el) :
            /\ ~Original(FrameAt(x), k).explicit
            /\ ~Original(FrameAt(x), j).explicit
            /\ FrameAt(x).status[k] = "Resolved"
            /\ FrameAt(x).el[k].kind = "container"
            /\ FrameAt(x).status[j] = "Skipped"
            /\ FrameAt(x).el[j] = Original(FrameAt(x), j)

\* C7: a qualifying marker with no target path, a target that is not found
\* or a target that is not a document is left in the tree unchanged: no
\* warning, embeddedFiles unchanged, no error, and the loop goes on with the
\* next marker.
C7_UnresolvableSkipped ==
    [][\A p \in DOMAIN passes :
          Visits(p) =>
              LET m == Top(p).el[Top(p).i] IN
              ((settings.renderAllTransclusions \/ m.explicit)
                  /\ m.src \in {"", "missing", "folder"})
                    => LeftUntouched(p)
      ]_vars

\* a call skipped a qualifying marker whose target does not resolve (no
\* path, not found, or a folder), went on, embedded the next marker and
\* returned
C7_Witness ==
    \E y \in Frames :
        /\ FrameAt(y).status = <<"Skipped", "Resolved">>
        /\ FrameAt(y).el[1] \in {Marker(t, TRUE) : t \in {"", "missing", "folder"}}
        /\ FrameAt(y).el[2].kind = "container"
        /\ FrameAt(y).pc = "done"
        /\ embeddedFiles = {}

\* C11: a call on a fragment with no embed markers does nothing: it returns
\* at once with the fragment as it was (no marker entered, so nothing read
\* and nothing rendered, no nested call) and embeddedFiles unchanged.
C11_NoMarkersNoOp ==
    [][\A p \in DOMAIN passes :
          (Top(p).pc = "loop" /\ Len(Top(p).el) = 0) =>
              /\ Len(passes'[p]) = Len(passes[p])
              /\ TopAfter(p) = [Top(p) EXCEPT !.pc = "done"]
              /\ TopAfter(p).el = vault[Top(p).source]
              /\ \A j \in 1..(Len(passes[p]) - 1) : passes'[p][j] = passes[p][j]
              /\ embeddedFiles' = embeddedFiles
      ]_vars

\* a call on a document without markers has returned while a resolution
\* (of that document) is in progress around it
C11_Witness ==
    \E x \in Frames :
        /\ vault[FrameAt(x).source] = <<>>
        /\ FrameAt(x).el = <<>>
        /\ FrameAt(x).pc = "done"
        /\ FrameAt(x).source \in embeddedFiles

\* C12: two passes of the host for two views do not share the cycle guard:
\* while one view is resolving an embed of a document d that embeds nothing
\* (so no embedding of d is cyclic), no marker for d in the fragment the
\* other view renders, of a document other than d, has been replaced by the
\* cycle warning.
C12_ViewsIndependent ==
    \A p \in DOMAIN passes, q \in DOMAIN passes, d \in Docs :
        ( /\ p # q
          /\ vault[d] = <<>>
          /\ passes[p][1].source # d
          /\ passes[q][1].source # d
          /\ Resolving(<<p, 1>>, d) )
        => \A k \in 1..Len(passes[q][1].el) :
               Original(passes[q][1], k).src = d
                   => passes[q][1].status[k] # "Rejected"

\* a host call on a fragment with two explicit markers for d, where d is
\* another document and embeds nothing
TwoSiblings(p, d) ==
    /\ vault[passes[p][1].source] = <<Marker(d, TRUE), Marker(d, TRUE)>>
    /\ passes[p][1].source # d
    /\ vault[d] = <<>>

NothingFailed ==
    \A x \in Frames :
        \A k \in 1..Len(FrameAt(x).el) : FrameAt(x).status[k] # "Failed"

\* C13: when a fragment embeds the same document d in two sibling markers
\* and d does not embed itself, a pass over it in which no read and no
\* render fails ends with both markers resolved to d (none is the cycle
\* warning), and d is not in embeddedFiles when the first has been resolved
\* and the second not yet entered.
C13_SiblingReuse ==
    \A p \in DOMAIN passes, d \in Docs :
        (TwoSiblings(p, d) /\ NothingFailed) =>
            LET root == passes[p][1] IN
            /\ root.pc = "done" => root.status = <<"Resolved", "Resolved">>
            /\ (root.status[1] = "Resolved" /\ root.status[2] = "Unvisited")
                   => d \notin embeddedFiles

\* what does hold of the code: once the first sibling has been resolved, d
\* is not in embeddedFiles when the loop comes to the second, and the
\* second is entered, never rejected (no await lies between the delete of
\* line 58 and the has of line 31 of the next turn)
SecondSiblingEntered ==
    \A p \in DOMAIN passes, d \in Docs :
        (TwoSiblings(p, d) /\ passes[p][1].status[1] = "Resolved") =>
            /\ passes[p][1].status[2] # "Rejected"
            /\ passes[p][1].status[2] = "Unvisited" => d \notin embeddedFiles

\* C14: when the loop comes to a qualifying marker whose target document is
\* in embeddedFiles, the marker is replaced by the warning naming the
\* target and nothing else of the fragment changes; the call is not
\* suspended (nothing is read, nothing rendered, no nested call),
\* embeddedFiles is left as it is, and the loop is at the next marker.
C14_RejectionLocal ==
    [][\A p \in DOMAIN passes :
          Visits(p) =>
              LET f == Top(p)
                  m == f.el[f.i]
              IN ( /\ settings.renderAllTransclusions \/ m.explicit
                   /\ m.src \in Docs
                   /\ m.src \in embeddedFiles )
                 => /\ Len(passes'[p]) = Len(passes[p])
                    /\ TopAfter(p).el = [f.el EXCEPT ![f.i] = Warning(m.src)]
                    /\ TopAfter(p).status[f.i] = "Rejected"
                    /\ TopAfter(p).pc = "loop"
                    /\ TopAfter(p).i = f.i + 1
                    /\ embeddedFiles' = embeddedFiles
      ]_vars

\* a document embeds itself: the nested attempt has been replaced by the
\* warning and the nested call has returned, while the outer resolution of
\* the document is in progress and holds its entry
C14_Witness ==
    \E x \in Frames, y \in Frames :
        /\ x[1] = y[1]
        /\ x[2] < y[2]
        /\ \E d \in Docs, k \in 1..Len(FrameAt(y).el) :
              /\ Resolving(x, d)
              /\ d \in embeddedFiles
              /\ FrameAt(y).source = d
              /\ FrameAt(y).status[k] = "Rejected"
              /\ FrameAt(y).el[k] = Warning(d)
              /\ FrameAt(y).pc = "done"

Terminal == {"Skipped", "Rejected", "Resolved", "Failed"}

\* the host call of pass p has returned with every marker of its fragment
\* in a terminal state and no nested call left
Completed(p) ==
    /\ Len(passes[p]) = 1
    /\ passes[p][1].pc = "done"
    /\ \A k \in 1..Len(passes[p][1].el) : passes[p][1].status[k] \in Terminal

\* an await of the host call of pass p threw: a read or a render did not
\* return
Threw(p) == Len(passes[p]) = 1 /\ passes[p][1].pc = "failed"

\* the resolutions in progress in pass p, one inside the other
Nesting(p) == {j \in 1..Len(passes[p]) : passes[p][j].pc \in {"read", "render"}}

\* C15: whatever the embed graph of the documents (self-embeds and longer
\* cycles included), a pass the host has started eventually completes with
\* every marker in a terminal state, unless a read or a render it awaits
\* throws instead of returning; and there are never more resolutions nested
\* in one another than there are documents.
C15_Termination ==
    /\ \A p \in 1..Cardinality(Views) :
          (p \in DOMAIN passes)
              ~> (p \in DOMAIN passes /\ (Completed(p) \/ Threw(p)))
    /\ [](\A p \in DOMAIN passes : Cardinality(Nesting(p)) <= Cardinality(Docs))

\* a pass over two documents that embed each other has completed: the
\* resolutions were nested as deep as there are documents, and the third
\* attempt was rejected
C15_Witness ==
    /\ vault["A"] = <<Marker("B", TRUE)>>
    /\ vault["B"] = <<Marker("A", TRUE)>>
    /\ \E p \in DOMAIN passes :
          /\ Completed(p)
          /\ passes[p][1].source = "A"
          /\ passes[p][1].el[1].kind = "container"
          /\ passes[p][1].el[1].children[1].kind = "container"
          /\ passes[p][1].el[1].children[1].children = <<Warning("B")>>

\* C16: a call goes through the markers of its fragment one at a time, in
\* document order: the markers before the one the loop is at are in a
\* terminal state, those after it are unvisited, so at most one marker of
\* the fragment is Resolving; and the nested calls above a call belong to
\* the render of that one marker (the call is suspended at line 52), so
\* they have all been popped before the next marker is looked at.
C16_OneMarkerAtATime ==
    \A x \in Frames :
        LET f == FrameAt(x) IN
        /\ \A k \in 1..Len(f.el) :
              /\ k < f.i => f.status[k] \in Terminal \ {"Failed"}
              /\ k > f.i => f.status[k] = "Unvisited"
              /\ f.status[k] = "Resolving"
                    <=> (k = f.i /\ f.pc \in {"read", "render"})
        /\ Cardinality({k \in 1..Len(f.el) : f.status[k] = "Resolving"}) <= 1
        /\ x[2] < Len(passes[x[1]]) => f.pc = "render"

\* the first marker of a fragment has been resolved and spliced; the second
\* is being resolved and the nested call of its render is there
C16_Witness ==
    \E p \in DOMAIN passes :
        /\ Len(passes[p]) = 2
        /\ passes[p][1].status = <<"Resolved", "Resolving">>
        /\ passes[p][1].el[1].kind = "container"
        /\ passes[p][1].el[2].kind = "marker"

\* C17: a pass works with the settings as they were when the host started
\* it, whatever is changed in the setting tab while it is suspended: every
\* marker of the pass, in the host call and in the nested calls, that was
\* let through the gate qualified under those settings, every marker of an
\* existing document that was left alone did not, and the text of a target
\* went through shiftHeadings exactly if shiftHeadings was on then.
C17_SettingsFixedInPass ==
    \A x \in Frames :
        LET f == FrameAt(x)
            s0 == atStart[x[1]]
        IN \A k \in 1..Len(f.el) :
              LET m == Original(f, k) IN
              /\ f.status[k] \in {"Resolving", "Rejected", "Resolved", "Failed"}
                    => (s0.renderAllTransclusions \/ m.explicit)
              /\ (f.status[k] = "Skipped" /\ m.src \in Docs)
                    => ~(s0.renderAllTransclusions \/ m.explicit)
              /\ f.el[k].kind = "container"
                    => f.el[k].shifted = s0.shiftHeadings
              /\ (f.status[k] = "Resolving" /\ f.pc = "render")
                    => f.shifted = s0.shiftHeadings

\* the moves of the state machine of a marker
Moves ==
    {<<"Unvisited", "Skipped">>, <<"Unvisited", "Rejected">>,
     <<"Unvisited", "Resolving">>,
     <<"Resolving", "Resolved">>, <<"Resolving", "Failed">>}

\* what stands in the place of a marker in each state
KindIn(status) ==
    IF status = "Rejected" THEN "warning"
    ELSE IF status = "Resolved" THEN "container"
    ELSE "marker"

\* C18: in every step, every marker of every call stays in its state or
\* makes one move of the state machine (Unvisited to Skipped, Rejected or
\* Resolving; Resolving to Resolved or Failed), so a terminal state is never
\* left; the marker is replaced only in the move to Rejected (by the
\* warning) or to Resolved (by the container), hence at most once and never
\* by both, and in every other state it is in the tree as it was rendered.
C18_MarkerStateMachine ==
    [][\A p \in DOMAIN passes :
          \A j \in 1..Min(Len(passes[p]), Len(passes'[p])) :
              LET f == passes[p][j]
                  g == passes'[p][j]
              IN \A k \in 1..Len(f.el) :
                    /\ f.el[k].kind = KindIn(f.status[k])
                    /\ f.el[k].kind = "marker" => f.el[k] = Original(f, k)
                    /\ \/ g.status[k] = f.status[k] /\ g.el[k] = f.el[k]
                       \/ /\ <<f.status[k], g.status[k]>> \in Moves
                          /\ g.el[k].kind = KindIn(g.status[k])
                          /\ g.el[k].kind = "marker" => g.el[k] = f.el[k]
      ]_vars

\* a call has returned with one marker replaced by the warning and the
\* next one by the rendered target
C18_Witness ==
    \E x \in Frames :
        /\ FrameAt(x).status = <<"Rejected", "Resolved">>
        /\ FrameAt(x).el[1].kind = "warning"
        /\ FrameAt(x).el[2].kind = "container"
        /\ FrameAt(x).pc = "done"

\* d is in embeddedFiles and no resolution of d is in progress
Leaked(d) == d \in embeddedFiles /\ ~\E x \in Frames : Resolving(x, d)

\* C19: a path leaves embeddedFiles only in the step in which the
\* resolution of it that is in progress splices its container (lines
\* 55-58). Hence a path that is in the set with no resolution of it in
\* progress stays so in every later state, and every qualifying marker for
\* it the loop of any pass comes to is replaced by the loop warning.
C19_OnlySpliceReleases ==
    [][\A d \in Docs :
          /\ (d \in embeddedFiles /\ d \notin embeddedFiles')
                => \E x \in Frames :
                       /\ Resolving(x, d)
                       /\ FrameAt(x).pc = "render"
                       /\ Len(passes'[x[1]]) = x[2]
                       /\ LET g == passes'[x[1]][x[2]] IN
                          /\ g.status[FrameAt(x).i] = "Resolved"
                          /\ g.el[FrameAt(x).i].kind = "container"
                          /\ g.el[FrameAt(x).i].path = d
          /\ Leaked(d) =>
                /\ Leaked(d)'
                /\ \A p \in DOMAIN passes :
                      ( /\ Visits(p)
                        /\ Top(p).el[Top(p).i].src = d
                        /\ settings.renderAllTransclusions
                              \/ Top(p).el[Top(p).i].explicit )
                      => /\ TopAfter(p).status[Top(p).i] = "Rejected"
                         /\ TopAfter(p).el[Top(p).i] = Warning(d)
      ]_vars

\* the read or the render of d failed in one pass and left d in the set;
\* another pass has come to a marker for d, replaced it by the warning and
\* returned
C19_Witness ==
    \E p \in DOMAIN passes, q \in DOMAIN passes, d \in Docs :
        /\ p # q
        /\ Leaked(d)
        /\ passes[p][1].pc = "failed"
        /\ Original(passes[p][1], passes[p][1].i).src = d
        /\ passes[q][1].pc = "done"
        /\ \E k \in 1..Len(passes[q][1].el) :
              /\ passes[q][1].status[k] = "Rejected"
              /\ passes[q][1].el[k] = Warning(d)

----------------------------------------------------------------------------
(* Claims about the settings (checked under SpecSettings) *)

Fields == {"renderAllTransclusions", "shiftHeadings"}

\* C20: right after a load each flag is the stored value if the stored data
\* has the field and false if not; a change of a toggle changes that flag
\* only, to the value chosen, and hands the settings as they then are to
\* one more save; and when toggles have been changed and every save has
\* ended, the stored data are the settings in memory.
C20_SettingsPersistence ==
    /\ []((changes = 0 /\ saves = <<>>) =>
              \A k \in Fields :
                  settings[k] = IF k \in DOMAIN data THEN data[k] ELSE FALSE)
    /\ []((changes > 0 /\ saves = <<>>) => data = settings)
    /\ [][changes' = changes + 1 =>
              /\ \E k \in Fields :
                    /\ settings'[k] # settings[k]
                    /\ \A j \in Fields \ {k} : settings'[j] = settings[j]
              /\ saves' = Append(saves, settings')
              /\ data' = data
         ]_vars

\* the settings were loaded as false and false, both toggles have been
\* switched on, and both saves have ended
C20_Witness ==
    /\ changes = 2
    /\ saves = <<>>
    /\ settings.renderAllTransclusions /\ settings.shiftHeadings
    /\ data = settings

----------------------------------------------------------------------------
(* Claims about the heading shifter (checked under SpecShift) *)

\* the maximal runs of marker characters of a text, left to right
RECURSIVE MarkerRuns(_, _)
MarkerRuns(t, p) ==
    IF p > Len(t) THEN <<>>
    ELSE IF t[p] # "#" THEN MarkerRuns(t, p + 1)
    ELSE LET n == CHOOSE k \in 1..Len(t) :
                      /\ \A j \in p..(p + k - 1) : j <= Len(t) /\ t[j] = "#"
                      /\ (p + k > Len(t) \/ t[p + k] # "#")
         IN <<[at |-> p, len |-> n]>> \o MarkerRuns(t, p + n)

\* a run that is a heading marker: 1..6 characters at a line start, followed
\* by whitespace
IsHeadingRun(t, r) ==
    /\ (r.at = 1 \/ t[r.at - 1] = "\n")
    /\ r.len <= 6
    /\ r.at + r.len <= Len(t)
    /\ t[r.at + r.len] \in {" ", "\n", "\t"}

Text6x == <<"#", "#", "#", "#", "#", "#", " ", "x">>
Text7x == <<"#", "#", "#", "#", "#", "#", "#", " ", "x">>
Text1x == <<"#", " ", "x">>
Text2x == <<"#", "#", " ", "x">>
Text3x == <<"#", "#", "#", " ", "x">>

\* C8: with a base level b every heading marker of h characters becomes one
\* of min(h + b, 6) characters (so a level in 1..6, never lower than h), every
\* other run of marker characters keeps its length (seven markers are no
\* heading), and with no base level the text is returned unchanged; the
\* three examples of the specification.
C8_HeadingShiftClamped ==
    /\ shiftResult.done =>
          IF base = Null THEN shiftResult.value = content
          ELSE LET rin == MarkerRuns(content, 1)
                   rout == MarkerRuns(shiftResult.value, 1)
               IN /\ Len(rout) = Len(rin)
                  /\ \A i \in 1..Len(rin) :
                        IF IsHeadingRun(content, rin[i])
                        THEN /\ rout[i].len = Min(rin[i].len + base[1], 6)
                             /\ rout[i].len \in 1..6
                             /\ rout[i].len >= rin[i].len
                        ELSE rout[i].len = rin[i].len
    /\ shiftHeadings(Text6x, Element(TreeUnder(Some(3)), 2)) = Text6x
    /\ shiftHeadings(Text1x, Element(TreeUnder(Some(2)), 2)) = Text3x
    /\ shiftHeadings(Text2x, Element(TreeUnder(Null), 2)) = Text2x
    /\ shiftHeadings(Text7x, Element(TreeUnder(Some(1)), 2)) = Text7x

\* a heading whose shifted level is cut down to 6 has been shifted
C8_Witness ==
    /\ shiftResult.done
    /\ base # Null
    /\ \E i \in 1..Len(MarkerRuns(content, 1)) :
          LET r == MarkerRuns(content, 1)[i] IN
          /\ IsHeadingRun(content, r)
          /\ r.len + base[1] > 6
          /\ r.len < 6
    /\ shiftResult.value # content

\* the lines of a text (the text split at its line breaks)
RECURSIVE SplitLines(_, _, _)
SplitLines(t, p, line) ==
    IF p > Len(t) THEN <<line>>
    ELSE IF t[p] = "\n" THEN <<line>> \o SplitLines(t, p + 1, <<>>)
    ELSE SplitLines(t, p + 1, Append(line, t[p]))

RECURSIVE JoinLines(_)
JoinLines(ls) ==
    IF Len(ls) = 1 THEN ls[1]
    ELSE ls[1] \o <<"\n">> \o JoinLines(Tail(ls))

LeadingMarkers(line) ==
    IF line = <<>> \/ line[1] # "#" THEN 0 ELSE MarkerRuns(line, 1)[1].len

\* a line as the specification shifts it: only the count of markers changes
LineShifted(line, isLast, b) ==
    LET h == LeadingMarkers(line) IN
    IF /\ h \in 1..6
       /\ \/ Len(line) > h /\ line[h + 1] \in {" ", "\t"}
          \/ Len(line) = h /\ ~isLast
    THEN [i \in 1..Min(h + b, 6) |-> "#"] \o SubSeq(line, h + 1, Len(line))
    ELSE line

\* C9: the shift changes only the count of heading markers: the whitespace
\* after the markers and the rest of a heading line are kept character for
\* character, every other line is untouched, the number of lines is kept.
C9_OnlyMarkerCountChanges ==
    (shiftResult.done /\ base # Null) =>
        LET ls == SplitLines(content, 1, <<>>) IN
        shiftResult.value =
            JoinLines([i \in 1..Len(ls) |->
                          LineShifted(ls[i], i = Len(ls), base[1])])

----------------------------------------------------------------------------
(* Claims about the ancestor locator (checked under SpecLocate) *)

RECURSIVE AncestorsOf(_, _)
AncestorsOf(tree, n) ==
    IF tree[n].parentElement = Null THEN {}
    ELSE {tree[n].parentElement[1]}
            \cup AncestorsOf(tree, tree[n].parentElement[1])

HeadingAncestors(tree, n) ==
    {a \in AncestorsOf(tree, n) : \E k \in 1..6 : tree[a].tagName = H(k)}

\* the nearest of a set of ancestors: a node's parent has a smaller index
Nearest(as) == CHOOSE a \in as : \A b \in as : b <= a

ThreeUnderH2 ==
    <<Node(H(2), Null), Node(DIV, Some(1)), Node(DIV, Some(2)),
      Node(SPAN, Some(3))>>

H3NearerThanH2 ==
    <<Node(H(2), Null), Node(H(3), Some(1)), Node(DIV, Some(2)),
      Node(SPAN, Some(3))>>

\* C10: the locator returns the level of the nearest ancestor that is a
\* heading, whatever lies between, and none when no ancestor is a heading.
C10_NearestHeadingAncestor ==
    /\ headerLevel.done =>
          LET hs == HeadingAncestors(dom, transclusion) IN
          IF hs = {} THEN headerLevel.value = Null
          ELSE headerLevel.value =
                  Some(CHOOSE k \in 1..6 : dom[Nearest(hs)].tagName = H(k))
    /\ getParentHeaderLevel(Element(ThreeUnderH2, 4)) = Some(2)
    /\ getParentHeaderLevel(Element(H3NearerThanH2, 4)) = Some(3)
    /\ getParentHeaderLevel(Element(TreeUnder(Null), 2)) = Null

\* the locator has answered 2 for a marker three levels under an H2
C10_Witness ==
    /\ headerLevel.done
    /\ dom = ThreeUnderH2
    /\ transclusion = 4
    /\ headerLevel.value = Some(2)

====
